---- MODULE Spec2Model ----
(***************************************************************************)
(* Model of the cron-control runner (cron-control-next/runner/runner.go).  *)
(*                                                                         *)
(* Three specifications share the module:                                  *)
(*   Spec      the goroutine pipeline: signal listener, site retriever,    *)
(*             event retrievers, fan-in coordinator, event workers and     *)
(*             the heartbeat / drain controller, communicating over the    *)
(*             unbuffered channels sites, events and workerEvents;         *)
(*   GovSpec   the back-off governor shouldGetSites called repeatedly;     *)
(*   WaitSpec  the periodic waiter waitForEpoch on a discrete clock.       *)
(*                                                                         *)
(* Time is counted in ticks, Second ticks to the second.  The shared flag  *)
(* gRestart and the liveness slices are plain words read and written       *)
(* without synchronisation.  gRestart is written once, false to true, and  *)
(* each slot by one goroutine; the stores are single coherent words and    *)
(* the loads are not moved across the channel operations and calls between *)
(* them, so a read returns the value last written and the race shows only  *)
(* in the instant at which Signal takes effect, which is any instant.      *)
(***************************************************************************)
EXTENDS Integers, Sequences, FiniteSets, TLC

(* ---------------------------- bounds ----------------------------------- *)
MaxWorkers == 2
MaxEvents == 2
MaxBatch == 2
MaxSites == 2
MaxDisabledLoops == 1
Second == 2

(* ------------------------ program constants ---------------------------- *)
runEventsBreakSec == 10
Minute == 60 * Second
Hour == 60 * Minute

(* the settings of -workers-get, -workers-run and -heartbeat explored: at  *)
(* most MaxWorkers in a pool, as long as the three add up to MaxWorkers + 1*)
HeartbeatValues == {0, 1}
Settings ==
  { c \in (1..MaxWorkers) \X (1..MaxWorkers) \X HeartbeatValues :
      c[1] + c[2] + c[3] <= MaxWorkers + 1 }

SiteURLs == {"a", "b"}
NoSite == [URL |-> "none"]
NoEvent == [URL |-> "none", Timestamp |-> 0, Action |-> "", Instance |-> ""]
(* site{} and event{}: the zero values the drain controller sends *)
EmptySite == [URL |-> ""]
EmptyEvent == [URL |-> "", Timestamp |-> 0, Action |-> "", Instance |-> ""]

(* the one reading of the wall clock, in seconds, the pipeline works at *)
Now0 == 1

(* records list-due-batch returns, one due and one premature at Now0; the  *)
(* JSON carries no url                                                     *)
UpstreamEvents ==
  { [URL |-> "", Timestamp |-> Now0, Action |-> "x", Instance |-> "i1"],
    [URL |-> "", Timestamp |-> Now0 + 1, Action |-> "y", Instance |-> "i2"] }

SeqsUpTo(S, n) == UNION { [1..k -> S] : k \in 0..n }

(* the lists of at most n distinct elements of S *)
ListsUpTo(S, n) ==
  { l \in SeqsUpTo(S, n) : \A i, j \in 1..Len(l) : l[i] = l[j] => i = j }

Min(a, b) == IF a < b THEN a ELSE b

VARIABLES
  numGetWorkers, numRunWorkers, heartbeatInt, gRestart, exitBy, clock,
  disabledLoopCount, eventRunErrCount, eventRunSuccessCount,
  gEventRetrieversRunning, gEventWorkersRunning,
  srpc, siteList,
  rpc, rSite, rEvents, rBatch, rSent, issued,
  cpc, cEvent, queued,
  wpc, wEvent, wErr, wLate, wRuns, owed,
  hpc, hIdx, StillRunning, successCount, errCount,
  govDisabled, govNow, govBefore, govSleep, govRun, streak, infoErr,
  nowNano, wtpc, whom, epoch_sec, tCall, tEpochDelta, tNextEpoch, iLoop,
  gRandomDeltaMap, tReturn, wtCause,
  shufIn, shufOut,
  regpc, regWrites

cfgVars == <<numGetWorkers, numRunWorkers, heartbeatInt, clock>>
srVars == <<srpc, siteList, disabledLoopCount>>
retVars == <<rpc, rSite, rEvents, rBatch, rSent, issued, gEventRetrieversRunning>>
coVars == <<cpc, cEvent, queued>>
wkVars == <<wpc, wEvent, wErr, wLate, wRuns, gEventWorkersRunning>>
cntVars == <<eventRunErrCount, eventRunSuccessCount, owed>>
hbVars == <<hpc, hIdx, StillRunning, successCount, errCount>>

govVars == <<govDisabled, govNow, govBefore, govSleep, govRun, streak, infoErr>>
waitVars == <<nowNano, wtpc, whom, epoch_sec, tCall, tEpochDelta, tNextEpoch,
              iLoop, gRandomDeltaMap, tReturn, wtCause>>
shufVars == <<shufIn, shufOut>>
regVars == <<regpc, regWrites>>
compVars == <<govVars, waitVars, shufVars, regVars>>

vars == <<numGetWorkers, numRunWorkers, heartbeatInt, gRestart, exitBy, clock,
          disabledLoopCount, eventRunErrCount, eventRunSuccessCount,
          gEventRetrieversRunning, gEventWorkersRunning,
          srpc, siteList, rpc, rSite, rEvents, rBatch, rSent, issued, cpc, cEvent, queued,
          wpc, wEvent, wErr, wLate, wRuns, owed,
          hpc, hIdx, StillRunning, successCount, errCount,
          govDisabled, govNow, govBefore, govSleep, govRun, streak, infoErr,
          nowNano, wtpc, whom, epoch_sec, tCall, tEpochDelta, tNextEpoch,
          iLoop, gRandomDeltaMap, tReturn, wtCause,
          shufIn, shufOut, regpc, regWrites>>

Retrievers == 1..numGetWorkers
Workers == 1..numRunWorkers
Slots == 1..MaxWorkers

Running == exitBy = "running"

(* ---------------------- back-off governor ------------------------------ *)
(* shouldGetSites sleeping by the count it has just updated *)
shouldGetSitesSleepAfter(disabled, disabledCount, nowUnix) ==
  LET disabledSleep == Minute * 3 * disabledCount
      disabledSleepSeconds == disabledSleep \div Second
      newCount == IF disabled > 1 /\ (nowUnix + disabledSleepSeconds) > disabled
                    THEN 0
                    ELSE IF disabledSleep > Hour THEN 0
                    ELSE disabledCount + 1
  IN IF disabled = 0
       THEN [run |-> TRUE, count |-> 0, sleep |-> 0]
       ELSE [run |-> FALSE, count |-> newCount, sleep |-> Minute * 3 * newCount]

(* shouldGetSites resetting at the boundary now + sleep == disabled too *)
shouldGetSitesAtBoundary(disabled, disabledCount, nowUnix) ==
  LET disabledSleep == Minute * 3 * disabledCount
      disabledSleepSeconds == disabledSleep \div Second
  IN IF disabled = 0
       THEN [run |-> TRUE, count |-> 0, sleep |-> 0]
       ELSE [run |-> FALSE,
             count |-> IF disabled > 1 /\ (nowUnix + disabledSleepSeconds) >= disabled
                         THEN 0
                         ELSE IF disabledSleep > Hour THEN 0
                         ELSE disabledCount + 1,
             sleep |-> disabledSleep]

(* shouldGetSites leaving the count alone when automation is enabled *)
shouldGetSitesNoReset(disabled, disabledCount, nowUnix) ==
  LET disabledSleep == Minute * 3 * disabledCount
      disabledSleepSeconds == disabledSleep \div Second
  IN IF disabled = 0
       THEN [run |-> TRUE, count |-> disabledCount, sleep |-> 0]
       ELSE [run |-> FALSE,
             count |-> IF disabled > 1 /\ (nowUnix + disabledSleepSeconds) > disabled
                         THEN 0
                         ELSE IF disabledSleep > Hour THEN 0
                         ELSE disabledCount + 1,
             sleep |-> disabledSleep]

(* shouldGetSites(disabled): the new disabledLoopCount, the time slept and *)
(* the value returned, from the count before the call and now.Unix()       *)
shouldGetSites(disabled, disabledCount, nowUnix) ==
  LET disabledSleep == Minute * 3 * disabledCount
      disabledSleepSeconds == disabledSleep \div Second
  IN IF disabled = 0
       THEN [run |-> TRUE, count |-> 0, sleep |-> 0]
       ELSE [run |-> FALSE,
             count |-> IF disabled > 1 /\ (nowUnix + disabledSleepSeconds) > disabled
                         THEN 0
                         ELSE IF disabledSleep > Hour THEN 0
                         ELSE disabledCount + 1,
             sleep |-> disabledSleep]

(* ---------------------- multisite shuffle ------------------------------ *)
(* the exchange written as two assignments, the first value not kept *)
SwapOverwrite(s, i, j) == [s EXCEPT ![i] = s[j]]

(* jsonRes[i], jsonRes[j] = jsonRes[j], jsonRes[i] *)
Swap(s, i, j) == [s EXCEPT ![i] = s[j], ![j] = s[i]]

RECURSIVE ShuffleFrom(_, _, _)
ShuffleFrom(s, i, js) ==
  IF i > Len(s) THEN s ELSE ShuffleFrom(Swap(s, i, js[i]), i + 1, js)

(* rand.Intn(i + 1) for each index i, counted from 1 here *)
RandChoices(n) == { js \in [1..n -> 1..n] : \A i \in 1..n : js[i] <= i }

getMultisiteSites(upstream, js) == ShuffleFrom(upstream, 1, js)

(* ------------------------------ Init ----------------------------------- *)
Labels == {"heartbeat", "runEvents", "retrieveSitesPeriodically"}

(* state of the governor log and of the waiter before any call *)
GovIdle ==
  /\ govDisabled = 0
  /\ govNow = 0
  /\ govBefore = 0
  /\ govSleep = 0
  /\ govRun = TRUE
  /\ streak = 0
  /\ infoErr = FALSE

WaitIdle ==
  /\ nowNano = 0
  /\ wtpc = "idle"
  /\ whom = "none"
  /\ epoch_sec = 0
  /\ tCall = 0
  /\ tEpochDelta = 0
  /\ tNextEpoch = 0
  /\ iLoop = 0
  /\ gRandomDeltaMap = [l \in Labels |-> -1]
  /\ tReturn = 0
  /\ wtCause = "none"

(* no goroutine is inside waitForEpoch and nothing was stored in the map *)
RegIdle ==
  /\ regpc = [c \in 0..MaxWorkers |-> "idle"]
  /\ regWrites = [l \in Labels |-> 0]

(* no site list has been decoded yet *)
ShufIdle ==
  /\ shufIn = <<>>
  /\ shufOut = <<>>

(* main() has made the channels and the liveness slices and started the    *)
(* goroutines; none of them has run yet                                    *)
PipelineInit ==
  /\ gRestart = FALSE
  /\ exitBy = "running"
  /\ clock = Now0
  /\ disabledLoopCount = 0
  /\ eventRunErrCount = 0
  /\ eventRunSuccessCount = 0
  /\ gEventRetrieversRunning = [r \in Slots |-> FALSE]
  /\ gEventWorkersRunning = [w \in Slots |-> FALSE]
  /\ srpc = "wait"
  /\ siteList = <<>>
  /\ rpc = [r \in Slots |-> IF r <= numGetWorkers THEN "start" ELSE "none"]
  /\ rSite = [r \in Slots |-> NoSite]
  /\ rEvents = [r \in Slots |-> <<>>]
  /\ rBatch = [r \in Slots |-> <<>>]
  /\ rSent = [r \in Slots |-> 0]
  /\ issued = 0
  /\ cpc = "recv"
  /\ cEvent = NoEvent
  /\ queued = 0
  /\ wpc = [w \in Slots |-> IF w <= numRunWorkers THEN "start" ELSE "none"]
  /\ wEvent = [w \in Slots |-> NoEvent]
  /\ wErr = [w \in Slots |-> "none"]
  /\ wLate = [w \in Slots |-> FALSE]
  /\ wRuns = [w \in Slots |-> 0]
  /\ owed = 0
  /\ hpc = "wait"
  /\ hIdx = 1
  /\ StillRunning = FALSE
  /\ successCount = 0
  /\ errCount = 0

Init ==
  /\ \E c \in Settings :
       numGetWorkers = c[1] /\ numRunWorkers = c[2] /\ heartbeatInt = c[3]
  /\ PipelineInit
  /\ GovIdle
  /\ WaitIdle
  /\ ShufIdle
  /\ RegIdle

(* --------------------------- environment ------------------------------- *)
(* setupSignalHandler: a termination signal arrives *)
Signal ==
  /\ Running
  /\ ~gRestart
  /\ gRestart' = TRUE
  /\ UNCHANGED <<cfgVars, exitBy, srVars, retVars, coVars, wkVars, cntVars, hbVars, compVars>>

(* --------------------------- site retriever ---------------------------- *)
(* what get-info can answer: a failed invocation or decode, or a siteInfo  *)
DisabledValues == {0, 1, 2}

InstanceInfos ==
  { [err |-> TRUE, Multisite |-> 0, Siteurl |-> "", Disabled |-> 0] }
  \cup { [err |-> FALSE, Multisite |-> m, Siteurl |-> u, Disabled |-> d] :
           m \in {0, 1}, u \in SiteURLs, d \in DisabledValues }

(* what site list can answer, beside an error: lists of distinct sites *)
SiteLists == ListsUpTo({ [URL |-> u] : u \in SiteURLs }, MaxSites)

(* getSites passing siteInfo.Disabled on as get-info left it, error or not *)
getSitesKeepsDisabled(info, listErr, upstream, js, disabledCount, nowUnix) ==
  LET gov == shouldGetSites(info.Disabled, disabledCount, nowUnix)
  IN [count |-> gov.count,
      sleep |-> gov.sleep,
      sites |-> IF ~gov.run THEN <<>>
                ELSE IF info.Multisite = 1
                  THEN IF listErr THEN <<>> ELSE getMultisiteSites(upstream, js)
                ELSE << [URL |-> info.Siteurl] >>]

(* getSites: the list handed to the send loop (nil when nothing is sent),  *)
(* the new disabledLoopCount and the time slept                            *)
getSites(info, listErr, upstream, js, disabledCount, nowUnix) ==
  LET disabled == IF info.err THEN 1 ELSE info.Disabled
      gov == shouldGetSites(disabled, disabledCount, nowUnix)
  IN [count |-> gov.count,
      sleep |-> gov.sleep,
      sites |-> IF ~gov.run THEN <<>>
                ELSE IF info.Multisite = 1
                  THEN IF listErr THEN <<>> ELSE getMultisiteSites(upstream, js)
                ELSE << [URL |-> info.Siteurl] >>]

(* the answers of the upstream in the pipeline: it stays disabled, or      *)
(* failing, for at most MaxDisabledLoops cycles in a row                   *)
PipelineInfos(disabledCount) ==
  { info \in InstanceInfos :
      disabledCount < MaxDisabledLoops \/ (~info.err /\ info.Disabled = 0) }

GetSitesResults(disabledCount, nowUnix) ==
  { getSites(info, listErr, upstream, js, disabledCount, nowUnix) :
      info \in PipelineInfos(disabledCount), listErr \in BOOLEAN,
      upstream \in SiteLists, js \in RandChoices(MaxSites) }

(* retrieveSitesPeriodically, one turn of the loop up to the first send:   *)
(* waitForEpoch returns, gRestart is tested, getSites is called            *)
SRCycle ==
  /\ Running
  /\ srpc = "wait"
  /\ IF gRestart
       THEN /\ srpc' = "done"
            /\ UNCHANGED <<siteList, disabledLoopCount>>
       ELSE \E res \in GetSitesResults(disabledLoopCount, clock) :
              /\ disabledLoopCount' = res.count
              /\ siteList' = res.sites
              /\ srpc' = IF res.sites = <<>> THEN "wait" ELSE "send"
  /\ UNCHANGED <<cfgVars, gRestart, exitBy, retVars, coVars, wkVars, cntVars, hbVars, compVars>>

(* a retriever blocked in range sites: before its first site, or after the *)
(* 1 s break that follows a site                                           *)
AtSites(r) == rpc[r] \in {"recv", "sleep"}

(* sites <- site, received by retriever r at the head of its range loop *)
SRSend(r) ==
  /\ Running
  /\ srpc = "send"
  /\ AtSites(r)
  /\ rSite' = [rSite EXCEPT ![r] = Head(siteList)]
  /\ rpc' = [rpc EXCEPT ![r] = "check"]
  /\ siteList' = Tail(siteList)
  /\ srpc' = IF Tail(siteList) = <<>> THEN "wait" ELSE "send"
  /\ UNCHANGED <<disabledLoopCount, rEvents, rBatch, rSent, issued, gEventRetrieversRunning>>
  /\ UNCHANGED <<cfgVars, gRestart, exitBy, coVars, wkVars, cntVars, hbVars, compVars>>

(* --------------------------- event retrievers -------------------------- *)
RStart(r) ==
  /\ Running
  /\ rpc[r] = "start"
  /\ gEventRetrieversRunning' = [gEventRetrieversRunning EXCEPT ![r] = TRUE]
  /\ rpc' = [rpc EXCEPT ![r] = "recv"]
  /\ UNCHANGED <<rSite, rEvents, rBatch, rSent, issued>>
  /\ UNCHANGED <<cfgVars, gRestart, exitBy, srVars, coVars, wkVars, cntVars, hbVars, compVars>>

(* leaving the range loop: the liveness slot is cleared *)
RExit(r) ==
  /\ rpc' = [rpc EXCEPT ![r] = "done"]
  /\ rSite' = [rSite EXCEPT ![r] = NoSite]
  /\ rEvents' = [rEvents EXCEPT ![r] = <<>>]
  /\ rBatch' = [rBatch EXCEPT ![r] = <<>>]
  /\ rSent' = [rSent EXCEPT ![r] = 0]
  /\ gEventRetrieversRunning' = [gEventRetrieversRunning EXCEPT ![r] = FALSE]

(* the test of gRestart after a site was received; getSiteEvents starts *)
RCheck(r) ==
  /\ Running
  /\ rpc[r] = "check"
  /\ IF gRestart
       THEN RExit(r)
       ELSE /\ rpc' = [rpc EXCEPT ![r] = "fetch"]
            /\ UNCHANGED <<rSite, rEvents, rBatch, rSent, gEventRetrieversRunning>>
  /\ UNCHANGED issued
  /\ UNCHANGED <<cfgVars, gRestart, exitBy, srVars, coVars, wkVars, cntVars, hbVars, compVars>>

(* getSiteEvents returns an error or the decoded batch; with no event the  *)
(* 1 s break starts, else the inner loop                                   *)
RFetch(r) ==
  /\ Running
  /\ rpc[r] = "fetch"
  /\ \E err \in BOOLEAN, batch \in ListsUpTo(UpstreamEvents, Min(MaxBatch, MaxEvents - issued)) :
       LET events == IF err THEN <<>> ELSE batch
       IN /\ rEvents' = [rEvents EXCEPT ![r] = events]
          /\ rBatch' = [rBatch EXCEPT ![r] = events]
          /\ issued' = issued + Len(events)
          /\ rpc' = [rpc EXCEPT ![r] = IF Len(events) > 0 THEN "loop" ELSE "sleep"]
          /\ rSite' = [rSite EXCEPT ![r] = IF Len(events) > 0 THEN rSite[r] ELSE NoSite]
  /\ UNCHANGED <<rSent, gEventRetrieversRunning>>
  /\ UNCHANGED <<cfgVars, gRestart, exitBy, srVars, coVars, wkVars, cntVars, hbVars, compVars>>

(* the inner loop without its test of gRestart *)
RLoopNoRestart(r) ==
  /\ Running
  /\ rpc[r] = "loop"
  /\ rpc' = [rpc EXCEPT ![r] = "send"]
  /\ UNCHANGED <<rSite, rEvents, rBatch, rSent, gEventRetrieversRunning>>
  /\ UNCHANGED issued
  /\ UNCHANGED <<cfgVars, gRestart, exitBy, srVars, coVars, wkVars, cntVars, hbVars, compVars>>

(* head of the inner loop: the test of gRestart before an event is sent *)
RLoop(r) ==
  /\ Running
  /\ rpc[r] = "loop"
  /\ IF gRestart
       THEN RExit(r)
       ELSE /\ rpc' = [rpc EXCEPT ![r] = "send"]
            /\ UNCHANGED <<rSite, rEvents, rBatch, rSent, gEventRetrieversRunning>>
  /\ UNCHANGED issued
  /\ UNCHANGED <<cfgVars, gRestart, exitBy, srVars, coVars, wkVars, cntVars, hbVars, compVars>>

(* the event forwarded as decoded, its URL left as list-due-batch gave it *)
StampNone(ev, s) == ev

(* event.URL = site.URL *)
Stamp(ev, s) == [ev EXCEPT !.URL = s.URL]

(* the inner loop ranging over the batch from its end *)
RSendLast(r) ==
  /\ Running
  /\ rpc[r] = "send"
  /\ cpc = "recv"
  /\ cEvent' = Stamp(rEvents[r][Len(rEvents[r])], rSite[r])
  /\ cpc' = "send"
  /\ queued' = queued + 1
  /\ rEvents' = [rEvents EXCEPT ![r] = SubSeq(rEvents[r], 1, Len(rEvents[r]) - 1)]
  /\ IF Len(rEvents[r]) = 1
       THEN /\ rpc' = [rpc EXCEPT ![r] = "sleep"]
            /\ rSite' = [rSite EXCEPT ![r] = NoSite]
            /\ rBatch' = [rBatch EXCEPT ![r] = <<>>]
            /\ rSent' = [rSent EXCEPT ![r] = 0]
       ELSE /\ rpc' = [rpc EXCEPT ![r] = "loop"]
            /\ rSent' = [rSent EXCEPT ![r] = @ + 1]
            /\ UNCHANGED <<rSite, rBatch>>
  /\ UNCHANGED <<issued, gEventRetrieversRunning>>
  /\ UNCHANGED <<cfgVars, gRestart, exitBy, srVars, wkVars, cntVars, hbVars, compVars>>

(* queue <- event, received by the fan-in coordinator; after the last      *)
(* event of the batch the 1 s break starts.  rBatch is the batch as        *)
(* getSiteEvents returned it and rSent the number of its events sent.      *)
RSend(r) ==
  /\ Running
  /\ rpc[r] = "send"
  /\ cpc = "recv"
  /\ cEvent' = Stamp(Head(rEvents[r]), rSite[r])
  /\ cpc' = "send"
  /\ queued' = queued + 1
  /\ rEvents' = [rEvents EXCEPT ![r] = Tail(rEvents[r])]
  /\ IF Tail(rEvents[r]) = <<>>
       THEN /\ rpc' = [rpc EXCEPT ![r] = "sleep"]
            /\ rSite' = [rSite EXCEPT ![r] = NoSite]
            /\ rBatch' = [rBatch EXCEPT ![r] = <<>>]
            /\ rSent' = [rSent EXCEPT ![r] = 0]
       ELSE /\ rpc' = [rpc EXCEPT ![r] = "loop"]
            /\ rSent' = [rSent EXCEPT ![r] = @ + 1]
            /\ UNCHANGED <<rSite, rBatch>>
  /\ UNCHANGED <<issued, gEventRetrieversRunning>>
  /\ UNCHANGED <<cfgVars, gRestart, exitBy, srVars, wkVars, cntVars, hbVars, compVars>>

(* ------------------ fan-in coordinator and event workers --------------- *)
WStart(w) ==
  /\ Running
  /\ wpc[w] = "start"
  /\ gEventWorkersRunning' = [gEventWorkersRunning EXCEPT ![w] = TRUE]
  /\ wpc' = [wpc EXCEPT ![w] = "recv"]
  /\ UNCHANGED <<wEvent, wErr, wLate, wRuns>>
  /\ UNCHANGED <<cfgVars, gRestart, exitBy, srVars, retVars, coVars, cntVars, hbVars, compVars>>

(* the coordinator handing the event on and keeping it to hand on again *)
CForwardKeeps(w) ==
  /\ Running
  /\ cpc = "send"
  /\ wpc[w] = "recv"
  /\ wEvent' = [wEvent EXCEPT ![w] = cEvent]
  /\ wLate' = [wLate EXCEPT ![w] = gRestart]
  /\ wpc' = [wpc EXCEPT ![w] = "check"]
  /\ queued' = queued - 1
  /\ UNCHANGED <<cpc, cEvent>>
  /\ UNCHANGED <<wErr, wRuns, gEventWorkersRunning>>
  /\ UNCHANGED <<cfgVars, gRestart, exitBy, srVars, retVars, cntVars, hbVars, compVars>>

(* workerEvents <- event in spawnEventWorkers, received by worker w.       *)
(* queued counts the events sent on the event channel that no worker has   *)
(* received yet.                                                           *)
CForward(w) ==
  /\ Running
  /\ cpc = "send"
  /\ wpc[w] = "recv"
  /\ wEvent' = [wEvent EXCEPT ![w] = cEvent]
  /\ wLate' = [wLate EXCEPT ![w] = gRestart]
  /\ wpc' = [wpc EXCEPT ![w] = "check"]
  /\ cpc' = "recv"
  /\ cEvent' = NoEvent
  /\ queued' = queued - 1
  /\ UNCHANGED <<wErr, wRuns, gEventWorkersRunning>>
  /\ UNCHANGED <<cfgVars, gRestart, exitBy, srVars, retVars, cntVars, hbVars, compVars>>

(* leaving the range loop: the liveness slot is cleared *)
WExit(w) ==
  /\ wpc' = [wpc EXCEPT ![w] = "done"]
  /\ wEvent' = [wEvent EXCEPT ![w] = NoEvent]
  /\ wErr' = [wErr EXCEPT ![w] = "none"]
  /\ wLate' = [wLate EXCEPT ![w] = FALSE]
  /\ wRuns' = [wRuns EXCEPT ![w] = 0]
  /\ gEventWorkersRunning' = [gEventWorkersRunning EXCEPT ![w] = FALSE]

(* the comparison turned round *)
PrematureBefore(ev, nowUnix) == ev.Timestamp < nowUnix

(* event.Timestamp > int(now.Unix()) *)
Premature(ev, nowUnix) == ev.Timestamp > nowUnix

(* the worker loop without its test of gRestart at the top *)
WCheckNoRestart(w) ==
  /\ Running
  /\ wpc[w] = "check"
  /\ IF Premature(wEvent[w], clock)
       THEN /\ wpc' = [wpc EXCEPT ![w] = "recv"]
            /\ wEvent' = [wEvent EXCEPT ![w] = NoEvent]
            /\ wLate' = [wLate EXCEPT ![w] = FALSE]
            /\ UNCHANGED <<wErr, wRuns, gEventWorkersRunning>>
       ELSE /\ wpc' = [wpc EXCEPT ![w] = "run"]
            /\ wRuns' = [wRuns EXCEPT ![w] = @ + 1]
            /\ UNCHANGED <<wEvent, wErr, wLate, gEventWorkersRunning>>
  /\ UNCHANGED <<cfgVars, gRestart, exitBy, srVars, retVars, coVars, cntVars, hbVars, compVars>>

(* the tests after an event was received: gRestart, then the timestamp;    *)
(* a premature event is skipped, for any other the run subcommand starts.  *)
(* wRuns counts the run invocations started for the event received last.   *)
WCheck(w) ==
  /\ Running
  /\ wpc[w] = "check"
  /\ IF gRestart
       THEN WExit(w)
       ELSE IF Premature(wEvent[w], clock)
         THEN /\ wpc' = [wpc EXCEPT ![w] = "recv"]
              /\ wEvent' = [wEvent EXCEPT ![w] = NoEvent]
              /\ wLate' = [wLate EXCEPT ![w] = FALSE]
              /\ UNCHANGED <<wErr, wRuns, gEventWorkersRunning>>
         ELSE /\ wpc' = [wpc EXCEPT ![w] = "run"]
              /\ wRuns' = [wRuns EXCEPT ![w] = @ + 1]
              /\ UNCHANGED <<wEvent, wErr, wLate, gEventWorkersRunning>>
  /\ UNCHANGED <<cfgVars, gRestart, exitBy, srVars, retVars, coVars, cntVars, hbVars, compVars>>

(* every attempt counted as a success, whatever runWpCliCmd returned *)
WRunErrAsSuccess(w) ==
  /\ Running
  /\ wpc[w] = "run"
  /\ \E ok \in BOOLEAN :
       /\ wErr' = [wErr EXCEPT ![w] = IF ok THEN "nil" ELSE "failed"]
       /\ eventRunSuccessCount' =
            IF heartbeatInt > 0 THEN eventRunSuccessCount + 1 ELSE eventRunSuccessCount
       /\ UNCHANGED eventRunErrCount
  /\ owed' = owed + 1
  /\ wpc' = [wpc EXCEPT ![w] = "wait"]
  /\ wEvent' = [wEvent EXCEPT ![w] = NoEvent]
  /\ wLate' = [wLate EXCEPT ![w] = FALSE]
  /\ UNCHANGED <<wRuns, gEventWorkersRunning>>
  /\ UNCHANGED <<cfgVars, gRestart, exitBy, srVars, retVars, coVars, hbVars, compVars>>

(* runWpCliCmd returns for the run subcommand, with err nil or not, and    *)
(* the attempt is counted                                                  *)
WRun(w) ==
  /\ Running
  /\ wpc[w] = "run"
  /\ \E ok \in BOOLEAN :
       /\ wErr' = [wErr EXCEPT ![w] = IF ok THEN "nil" ELSE "failed"]
       /\ eventRunSuccessCount' =
            IF ok /\ heartbeatInt > 0 THEN eventRunSuccessCount + 1 ELSE eventRunSuccessCount
       /\ eventRunErrCount' =
            IF ~ok /\ heartbeatInt > 0 THEN eventRunErrCount + 1 ELSE eventRunErrCount
  /\ owed' = owed + 1
  /\ wpc' = [wpc EXCEPT ![w] = "wait"]
  /\ wEvent' = [wEvent EXCEPT ![w] = NoEvent]
  /\ wLate' = [wLate EXCEPT ![w] = FALSE]
  /\ UNCHANGED <<wRuns, gEventWorkersRunning>>
  /\ UNCHANGED <<cfgVars, gRestart, exitBy, srVars, retVars, coVars, hbVars, compVars>>

(* waitForEpoch("runEvents") returns and the loop tests gRestart *)
WWait(w) ==
  /\ Running
  /\ wpc[w] = "wait"
  /\ IF gRestart
       THEN WExit(w)
       ELSE /\ wpc' = [wpc EXCEPT ![w] = "recv"]
            /\ wErr' = [wErr EXCEPT ![w] = "none"]
            /\ wRuns' = [wRuns EXCEPT ![w] = 0]
            /\ UNCHANGED <<wEvent, wLate, gEventWorkersRunning>>
  /\ UNCHANGED <<cfgVars, gRestart, exitBy, srVars, retVars, coVars, cntVars, hbVars, compVars>>

(* ------------------- heartbeat and drain controller -------------------- *)
(* heartbeat() going on to the drain loop with heartbeatInt == 0 as well *)
HWaitAlwaysDrains ==
  /\ Running
  /\ hpc = "wait"
  /\ hpc' = IF gRestart THEN "retrievers"
            ELSE IF heartbeatInt = 0 THEN "wait" ELSE "loadSuccess"
  /\ UNCHANGED <<exitBy, hIdx, StillRunning, successCount, errCount>>
  /\ UNCHANGED <<cfgVars, gRestart, srVars, retVars, coVars, wkVars, cntVars, compVars>>

(* the heartbeat loop taking the flag back once it has seen it *)
HWaitClearsFlag ==
  /\ Running
  /\ hpc = "wait"
  /\ IF gRestart
       THEN /\ gRestart' = FALSE
            /\ IF heartbeatInt = 0
                 THEN /\ exitBy' = "main"
                      /\ hpc' = "done"
                 ELSE /\ hpc' = "retrievers"
                      /\ UNCHANGED exitBy
       ELSE /\ hpc' = IF heartbeatInt = 0 THEN "wait" ELSE "loadSuccess"
            /\ UNCHANGED <<exitBy, gRestart>>
  /\ UNCHANGED <<hIdx, StillRunning, successCount, errCount>>
  /\ UNCHANGED <<cfgVars, srVars, retVars, coVars, wkVars, cntVars, compVars>>

(* waitForEpoch("heartbeat") returns and the loop tests gRestart.  With    *)
(* heartbeatInt == 0 heartbeat() returns, and main with it; otherwise the  *)
(* drain loop starts.                                                      *)
HWait ==
  /\ Running
  /\ hpc = "wait"
  /\ IF gRestart
       THEN IF heartbeatInt = 0
              THEN /\ exitBy' = "main"
                   /\ hpc' = "done"
              ELSE /\ hpc' = "retrievers"
                   /\ UNCHANGED exitBy
       ELSE /\ hpc' = IF heartbeatInt = 0 THEN "wait" ELSE "loadSuccess"
            /\ UNCHANGED exitBy
  /\ UNCHANGED <<hIdx, StillRunning, successCount, errCount>>
  /\ UNCHANGED <<cfgVars, gRestart, srVars, retVars, coVars, wkVars, cntVars, compVars>>

HLoadSuccess ==
  /\ Running
  /\ hpc = "loadSuccess"
  /\ successCount' = eventRunSuccessCount
  /\ hpc' = "loadErr"
  /\ UNCHANGED <<hIdx, StillRunning, errCount>>
  /\ UNCHANGED <<cfgVars, gRestart, exitBy, srVars, retVars, coVars, wkVars, cntVars, compVars>>

HLoadErr ==
  /\ Running
  /\ hpc = "loadErr"
  /\ errCount' = eventRunErrCount
  /\ hpc' = "swapSuccess"
  /\ UNCHANGED <<hIdx, StillRunning, successCount>>
  /\ UNCHANGED <<cfgVars, gRestart, exitBy, srVars, retVars, coVars, wkVars, cntVars, compVars>>

HSwapSuccess ==
  /\ Running
  /\ hpc = "swapSuccess"
  /\ eventRunSuccessCount' = 0
  /\ hpc' = "swapErr"
  /\ UNCHANGED <<eventRunErrCount, owed>>
  /\ UNCHANGED <<hIdx, StillRunning, successCount, errCount>>
  /\ UNCHANGED <<cfgVars, gRestart, exitBy, srVars, retVars, coVars, wkVars, compVars>>

(* the second swap, then the heartbeat line is logged *)
HSwapErr ==
  /\ Running
  /\ hpc = "swapErr"
  /\ eventRunErrCount' = 0
  /\ owed' = owed - (successCount + errCount)
  /\ successCount' = 0
  /\ errCount' = 0
  /\ hpc' = "wait"
  /\ UNCHANGED <<eventRunSuccessCount, hIdx, StillRunning>>
  /\ UNCHANGED <<cfgVars, gRestart, exitBy, srVars, retVars, coVars, wkVars, compVars>>

(* drain loop, range over gEventRetrieversRunning: slot hIdx is read *)
HRetrievers ==
  /\ Running
  /\ hpc = "retrievers"
  /\ IF hIdx > numGetWorkers
       THEN /\ hpc' = "workers"
            /\ hIdx' = 1
       ELSE IF gEventRetrieversRunning[hIdx]
         THEN /\ hpc' = "sendSite"
              /\ UNCHANGED hIdx
         ELSE /\ hIdx' = hIdx + 1
              /\ UNCHANGED hpc
  /\ UNCHANGED <<StillRunning, successCount, errCount>>
  /\ UNCHANGED <<cfgVars, gRestart, exitBy, srVars, retVars, coVars, wkVars, cntVars, compVars>>

(* sites <- site{}, received by retriever r *)
HSendSite(r) ==
  /\ Running
  /\ hpc = "sendSite"
  /\ AtSites(r)
  /\ rSite' = [rSite EXCEPT ![r] = EmptySite]
  /\ rpc' = [rpc EXCEPT ![r] = "check"]
  /\ StillRunning' = TRUE
  /\ hIdx' = hIdx + 1
  /\ hpc' = "retrievers"
  /\ UNCHANGED <<successCount, errCount>>
  /\ UNCHANGED <<rEvents, rBatch, rSent, issued, gEventRetrieversRunning>>
  /\ UNCHANGED <<cfgVars, gRestart, exitBy, srVars, coVars, wkVars, cntVars, compVars>>

(* the drain loop making one pass only: os.Exit(0) follows the scan of    *)
(* the workers whatever StillRunning says                                  *)
HWorkersOnePass ==
  /\ Running
  /\ hpc = "workers"
  /\ IF hIdx > numRunWorkers
       THEN /\ exitBy' = "os.Exit"
            /\ hpc' = "done"
            /\ UNCHANGED <<hIdx, StillRunning>>
       ELSE /\ IF gEventWorkersRunning[hIdx]
                 THEN /\ hpc' = "sendEvent"
                      /\ UNCHANGED hIdx
                 ELSE /\ hIdx' = hIdx + 1
                      /\ UNCHANGED hpc
            /\ UNCHANGED <<StillRunning, exitBy>>
  /\ UNCHANGED <<successCount, errCount>>
  /\ UNCHANGED <<cfgVars, gRestart, srVars, retVars, coVars, wkVars, cntVars, compVars>>

(* range over gEventWorkersRunning; after the last slot StillRunning       *)
(* decides between the 3 s sleep and os.Exit(0)                            *)
HWorkers ==
  /\ Running
  /\ hpc = "workers"
  /\ IF hIdx > numRunWorkers
       THEN IF StillRunning
              THEN /\ hpc' = "retrievers"
                   /\ hIdx' = 1
                   /\ StillRunning' = FALSE
                   /\ UNCHANGED exitBy
              ELSE /\ exitBy' = "os.Exit"
                   /\ hpc' = "done"
                   /\ UNCHANGED <<hIdx, StillRunning>>
       ELSE /\ IF gEventWorkersRunning[hIdx]
                 THEN /\ hpc' = "sendEvent"
                      /\ UNCHANGED hIdx
                 ELSE /\ hIdx' = hIdx + 1
                      /\ UNCHANGED hpc
            /\ UNCHANGED <<StillRunning, exitBy>>
  /\ UNCHANGED <<successCount, errCount>>
  /\ UNCHANGED <<cfgVars, gRestart, srVars, retVars, coVars, wkVars, cntVars, compVars>>

(* queue <- event{}, received by the fan-in coordinator *)
HSendEvent ==
  /\ Running
  /\ hpc = "sendEvent"
  /\ cpc = "recv"
  /\ cEvent' = EmptyEvent
  /\ cpc' = "send"
  /\ queued' = queued + 1
  /\ StillRunning' = TRUE
  /\ hIdx' = hIdx + 1
  /\ hpc' = "workers"
  /\ UNCHANGED <<successCount, errCount>>
  /\ UNCHANGED <<cfgVars, gRestart, exitBy, srVars, retVars, wkVars, cntVars, compVars>>

(* ---------------------------- specification ---------------------------- *)
Next ==
  \/ Signal
  \/ SRCycle
  \/ \E r \in Retrievers : SRSend(r)
  \/ \E r \in Retrievers : RStart(r)
  \/ \E r \in Retrievers : RCheck(r)
  \/ \E r \in Retrievers : RFetch(r)
  \/ \E r \in Retrievers : RLoop(r)
  \/ \E r \in Retrievers : RSend(r)
  \/ \E w \in Workers : WStart(w)
  \/ \E w \in Workers : CForward(w)
  \/ \E w \in Workers : WCheck(w)
  \/ \E w \in Workers : WRun(w)
  \/ \E w \in Workers : WWait(w)
  \/ HWait
  \/ HLoadSuccess
  \/ HLoadErr
  \/ HSwapSuccess
  \/ HSwapErr
  \/ HRetrievers
  \/ \E r \in Retrievers : HSendSite(r)
  \/ HWorkers
  \/ HSendEvent

Spec == Init /\ [][Next]_vars

(* ------------------------ claims on the pipeline ----------------------- *)
(* C1: with heartbeat > 0, once the shutdown flag is set the runner goes   *)
(* on until the drain controller calls os.Exit(0): as long as the process  *)
(* has not exited some goroutine can still take a step, so that the drain  *)
(* controller is never left blocked on a sentinel for ever.                *)
C1_ShutdownReachesExit ==
  (heartbeatInt > 0 /\ gRestart) => (exitBy = "os.Exit" \/ ENABLED Next)

(* C2: with heartbeat > 0, whenever the heartbeat emitter is between two   *)
(* lines, every run attempt completed so far was reported by a line or is  *)
(* still in the two counters: none is dropped, none is counted twice.      *)
C2_HeartbeatCountsExact ==
  (heartbeatInt > 0 /\ hpc = "wait") =>
    owed = eventRunSuccessCount + eventRunErrCount

(* C8: no worker is in a run invocation for an event it received after the *)
(* shutdown flag was set, nor for a sentinel event; no retriever fetches   *)
(* the events of a sentinel site.                                          *)
C8_NoRunAfterShutdown ==
  /\ \A w \in Slots : wpc[w] = "run" => (~wLate[w] /\ wEvent[w] # EmptyEvent)
  /\ \A r \in Slots : rpc[r] = "fetch" => rSite[r] # EmptySite

(* a sentinel event has reached a worker after the shutdown flag was set *)
C8_Witness ==
  \E w \in Slots : wpc[w] = "check" /\ wLate[w] /\ wEvent[w] = EmptyEvent

(* C9: the step of a worker whose timestamp test finds the event premature *)
(* takes it back to the receive, starts no run invocation, hands nothing   *)
(* to a channel, and leaves the two counters, the shutdown flag and the    *)
(* liveness slots as they were.                                            *)
C9_PrematureSkipFrame ==
  [][\A w \in Slots :
       (wpc[w] = "check" /\ wpc'[w] # "check" /\ ~gRestart /\ wEvent[w].Timestamp > clock)
         => /\ wpc'[w] = "recv"
            /\ \A v \in Slots : wpc'[v] = "run" => wpc[v] = "run"
            /\ UNCHANGED <<cpc, cEvent, eventRunSuccessCount, eventRunErrCount>>
            /\ UNCHANGED <<gRestart, gEventWorkersRunning, gEventRetrieversRunning>>]_vars

(* a worker is at the timestamp test with a premature event while the      *)
(* counters are not zero                                                   *)
C9_Witness ==
  \E w \in Slots :
    /\ wpc[w] = "check" /\ ~gRestart /\ wEvent[w].Timestamp > clock
    /\ eventRunSuccessCount + eventRunErrCount > 0

(* C10: the event a retriever puts on the event channel has the URL of the *)
(* site that retriever is processing and the timestamp, action and         *)
(* instance of the upstream record.                                        *)
C10_EventCarriesSiteURL ==
  [][\A r \in Slots :
       (rpc[r] = "send" /\ rpc'[r] # "send")
         => /\ cEvent'.URL = rSite[r].URL
            /\ cEvent'.Timestamp = Head(rEvents[r]).Timestamp
            /\ cEvent'.Action = Head(rEvents[r]).Action
            /\ cEvent'.Instance = Head(rEvents[r]).Instance]_vars

(* two retrievers are about to send events of different sites *)
C10_Witness ==
  \E r1, r2 \in Slots :
    /\ rpc[r1] = "send" /\ rpc[r2] = "send"
    /\ rSite[r1].URL = "a" /\ rSite[r2].URL = "b"

(* C12: the shutdown flag is changed by the signal listener only, and     *)
(* only from false to true: no step of a retriever, a worker, the site     *)
(* retriever or the heartbeat changes it, and once true it stays true.     *)
C12_FlagMonotone ==
  [][/\ gRestart => gRestart'
     /\ gRestart' # gRestart => Signal]_vars

(* the flag is set and the site retriever, a retriever and a worker have   *)
(* read it and left their loops                                            *)
C12_Witness ==
  /\ gRestart
  /\ srpc = "done"
  /\ \E r \in Slots : rpc[r] = "done"
  /\ \E w \in Slots : wpc[w] = "done"

(* C13: with heartbeat > 0 the step in which a run invocation returns     *)
(* adds 1 to eventRunSuccessCount and nothing to eventRunErrCount when err *)
(* is nil, and the other way round when it is not; the event is then       *)
(* dropped, not run again nor handed back to a channel; and no other step  *)
(* makes a counter grow.  With heartbeat == 0 both counters are 0.         *)
C13_OneCounterPerRun ==
  [][/\ \A w \in Slots :
          (wpc[w] = "run" /\ wpc'[w] # "run") =>
            /\ wpc'[w] = "wait"
            /\ wEvent'[w] = NoEvent
            /\ UNCHANGED <<cpc, cEvent>>
            /\ wErr'[w] \in {"nil", "failed"}
            /\ heartbeatInt > 0 =>
                 /\ eventRunSuccessCount' =
                      eventRunSuccessCount + (IF wErr'[w] = "nil" THEN 1 ELSE 0)
                 /\ eventRunErrCount' =
                      eventRunErrCount + (IF wErr'[w] = "failed" THEN 1 ELSE 0)
     /\ (eventRunSuccessCount' > eventRunSuccessCount \/ eventRunErrCount' > eventRunErrCount)
          => \E w \in Slots : wpc[w] = "run" /\ wpc'[w] = "wait"
     /\ heartbeatInt = 0 =>
          /\ eventRunSuccessCount = 0 /\ eventRunErrCount = 0
          /\ eventRunSuccessCount' = 0 /\ eventRunErrCount' = 0]_vars

(* with heartbeat > 0 one run has failed and another has succeeded *)
C13_Witness ==
  /\ heartbeatInt > 0
  /\ eventRunErrCount = 1
  /\ eventRunSuccessCount = 1
  /\ \E w \in Slots : wpc[w] = "wait" /\ wErr[w] \in {"nil", "failed"}

(* C14 as stated: when the drain controller has called os.Exit(0) no      *)
(* worker is in a run invocation or anywhere else in its loop, and no      *)
(* retriever is in its loop, fetching or forwarding.                       *)
C14_ExitWithLoopsLeft ==
  exitBy = "os.Exit" =>
    /\ \A w \in Slots : wpc[w] \in {"none", "start", "done"}
    /\ \A r \in Slots : rpc[r] \in {"none", "start", "done"}

(* C14 amended: when the drain controller has called os.Exit(0) no worker  *)
(* is in a run invocation and no retriever is fetching the events of a     *)
(* site or forwarding them.                                                *)
C14_ExitCutsNoWork ==
  exitBy = "os.Exit" =>
    /\ \A w \in Slots : wpc[w] # "run"
    /\ \A r \in Slots : rpc[r] \notin {"fetch", "loop", "send"}

(* os.Exit(0) was called after the drain loop waited for a worker, while  *)
(* a retriever that started after its slot was read is in its loop         *)
C14_Witness ==
  /\ exitBy = "os.Exit"
  /\ \E w \in Slots : wpc[w] = "done"
  /\ \E r \in Slots : rpc[r] = "check" /\ gEventRetrieversRunning[r]

(* C16: with heartbeat == 0 the heartbeat routine is in its waiting loop  *)
(* until, the flag set, it returns and main with it: the drain loop is     *)
(* never entered, no liveness slot is read, no sentinel site or event is   *)
(* with a retriever, the coordinator or a worker, and os.Exit(0) is not    *)
(* called.                                                                 *)
C16_NoDrainWithoutHeartbeat ==
  heartbeatInt = 0 =>
    /\ hpc \in {"wait", "done"}
    /\ hpc = "done" <=> exitBy = "main"
    /\ exitBy = "main" => gRestart
    /\ exitBy # "os.Exit"
    /\ hIdx = 1 /\ ~StillRunning
    /\ cEvent # EmptyEvent
    /\ \A r \in Slots : rSite[r] # EmptySite
    /\ \A w \in Slots : wEvent[w] # EmptyEvent

(* with heartbeat == 0 main has returned while a worker is in a run        *)
(* invocation and a retriever holds its slot                               *)
C16_Witness ==
  /\ heartbeatInt = 0
  /\ exitBy = "main"
  /\ \E w \in Slots : wpc[w] = "run" /\ gEventWorkersRunning[w]
  /\ \E r \in Slots : gEventRetrieversRunning[r]

(* C17: the step of a retriever that finds the flag set at the head of    *)
(* the inner loop takes it out of both loops: it hands nothing to the      *)
(* event channel, keeps none of the batch, does not go to the 1 s break    *)
(* and clears its liveness slot; a retriever that has left receives no     *)
(* site and forwards nothing any more.                                     *)
C17_MidBatchExit ==
  [][\A r \in Slots :
       /\ (rpc[r] = "loop" /\ gRestart /\ rpc'[r] # "loop") =>
            /\ rpc'[r] = "done"
            /\ rEvents'[r] = <<>>
            /\ ~gEventRetrieversRunning'[r]
            /\ UNCHANGED <<cpc, cEvent>>
       /\ rpc[r] = "done" =>
            /\ rpc'[r] = "done"
            /\ rEvents'[r] = <<>>
            /\ rSite'[r] = NoSite
            /\ ~gEventRetrieversRunning'[r]]_vars

(* the one retriever has forwarded the first event of a batch of two, the  *)
(* coordinator still holds it, and the flag is set before the second       *)
C17_Witness ==
  /\ numGetWorkers = 1
  /\ gRestart
  /\ rpc[1] = "loop"
  /\ Len(rBatch[1]) = 2 /\ rSent[1] = 1
  /\ cpc = "send" /\ cEvent = Stamp(rBatch[1][1], rSite[1])

(* C19: the k-th event a retriever puts on the event channel for a batch  *)
(* is the k-th event of the batch as list-due-batch returned it; the       *)
(* coordinator takes an event only when it holds none and hands the one it *)
(* holds to a worker as it is, so that the workers receive the events in   *)
(* the order they were put on the channel.                                 *)
C19_BatchOrderKept ==
  [][/\ \A r \in Slots :
          (rpc[r] = "send" /\ rpc'[r] # "send") =>
            /\ rSent[r] < Len(rBatch[r])
            /\ cEvent' = Stamp(rBatch[r][rSent[r] + 1], rSite[r])
            /\ cpc = "recv" /\ cpc' = "send"
            /\ rSent'[r] = IF rSent[r] + 1 = Len(rBatch[r]) THEN 0 ELSE rSent[r] + 1
     /\ (cpc = "send" /\ cpc' # "send") =>
          \E w \in Slots : /\ wpc[w] = "recv" /\ wpc'[w] = "check"
                            /\ wEvent'[w] = cEvent
     /\ (cpc = "send" /\ cpc' = "send") => cEvent' = cEvent]_vars

(* a retriever is about to send the second event of a batch of two, and a  *)
(* worker has received the first                                           *)
C19_Witness ==
  \E r, w \in Slots :
    /\ rpc[r] = "send"
    /\ Len(rBatch[r]) = 2 /\ rSent[r] = 1
    /\ wpc[w] \in {"check", "run"}
    /\ wEvent[w] = Stamp(rBatch[r][1], rSite[r])

(* C20: at most numRunWorkers run invocations and at most numGetWorkers  *)
(* list-due-batch invocations are in progress; at most one event has been  *)
(* sent on the event channel and not yet received by a worker, and it is   *)
(* with the coordinator; an event is received as often as it was sent, and *)
(* at most one run invocation is started for an event received.            *)
C20_BackpressureNoDuplicate ==
  /\ Cardinality({ w \in Slots : wpc[w] = "run" }) <= numRunWorkers
  /\ Cardinality({ r \in Slots : rpc[r] = "fetch" }) <= numGetWorkers
  /\ queued \in {0, 1}
  /\ queued = 1 <=> cpc = "send"
  /\ queued + Cardinality({ w \in Slots : wpc[w] \in {"check", "run"} }) <= numRunWorkers + 1
  /\ \A w \in Slots : wRuns[w] <= 1

(* every worker is in a run invocation and the coordinator holds one more *)
(* event, which no worker is there to receive                              *)
C20_Witness ==
  /\ \A w \in Workers : wpc[w] = "run" /\ wRuns[w] = 1
  /\ cpc = "send" /\ queued = 1 /\ cEvent # EmptyEvent

(* ---------------------- the governor on its own ------------------------ *)
(* now.Unix() at the calls, a disabled-until in the past, and the disabled *)
(* arguments: 0, 1, and timestamps at and next to every now + sleep        *)
GovNow0 == 1000
GovPast == 100
SleepStepSeconds == (Minute * 3) \div Second
MaxLoops == (Hour \div (Minute * 3)) + 1
GovDisabledValues ==
  {0, 1, GovPast}
  \cup { GovNow0 + k * SleepStepSeconds + d : k \in 0..(MaxLoops + 1), d \in {-1, 0, 1} }

(* the sleeps of S3, in minutes, as the scenario lists them and as the     *)
(* governor takes them                                                     *)
S3Listed == <<0, 3, 6, 9, 12, 15, 18, 21, 24, 0>>
S3Taken == <<0, 3, 6, 9, 12, 15, 18, 21, 24, 27>>

(* one call shouldGetSites(disabled) at time nowUnix.  The call is logged: *)
(* its argument, the time, the count before it, the sleep, the result, and *)
(* streak, its place in a run of disabled == 1 calls begun at count 0.     *)
GovCall ==
  \E disabled \in GovDisabledValues :
    LET gov == shouldGetSites(disabled, disabledLoopCount, GovNow0)
    IN /\ disabledLoopCount' = gov.count
       /\ govDisabled' = disabled
       /\ govNow' = GovNow0
       /\ govBefore' = disabledLoopCount
       /\ govSleep' = gov.sleep
       /\ govRun' = gov.run
       /\ UNCHANGED infoErr
       /\ streak' = IF disabled # 1 \/ streak = Len(S3Listed) THEN 0
                    ELSE IF streak > 0 THEN streak + 1
                    ELSE IF disabledLoopCount = 0 THEN 1 ELSE 0
       /\ UNCHANGED <<cfgVars, gRestart, exitBy, srpc, siteList, retVars, coVars,
                      wkVars, cntVars, hbVars, waitVars, shufVars, regVars>>

GovInit ==
  /\ numGetWorkers = 1
  /\ numRunWorkers = 1
  /\ heartbeatInt = 1
  /\ PipelineInit
  /\ GovIdle
  /\ WaitIdle
  /\ ShufIdle
  /\ RegIdle

GovNext == GovCall

GovSpec == GovInit /\ [][GovNext]_vars

(* the sleep of the logged call, in seconds, as 3 minutes x the count *)
LoggedSleepSeconds == (Minute * 3 * govBefore) \div Second

(* C4 as stated: the k-th of ten consecutive disabled == 1 calls begun at  *)
(* count 0 sleeps 0, 3, 6, 9, 12, 15, 18, 21, 24, 0 minutes.               *)
C4_SleepsAsListed ==
  streak > 0 => (~govRun /\ govSleep = S3Listed[streak] * Minute)

(* C4 amended: the k-th of ten consecutive disabled == 1 calls begun at    *)
(* count 0 sleeps 0, 3, 6, 9, 12, 15, 18, 21, 24, 27 minutes and returns   *)
(* false.                                                                  *)
C4_SleepsAsTaken ==
  streak > 0 => (~govRun /\ govSleep = S3Taken[streak] * Minute)

(* the tenth call of such a run has been made *)
C4_Witness == streak = Len(S3Taken)

(* C5: no call of the governor sleeps for more than one hour. *)
C5_SleepAtMostOneHour == govSleep <= Hour

(* C6 as stated: after a call with disabled = T > 1 the result is false    *)
(* and the count is 0 if now + sleep >= T and the count before + 1         *)
(* otherwise.                                                              *)
C6_ResetAtOrAfterExpiry ==
  govDisabled > 1 =>
    /\ ~govRun
    /\ disabledLoopCount =
         IF govNow + LoggedSleepSeconds >= govDisabled THEN 0 ELSE govBefore + 1

(* C6 amended: after a call with disabled = T > 1 the result is false and  *)
(* the count is 0 if now + sleep > T, or if the sleep is longer than one   *)
(* hour, and the count before + 1 otherwise.                               *)
C6_ResetAfterExpiry ==
  govDisabled > 1 =>
    /\ ~govRun
    /\ disabledLoopCount =
         IF govNow + LoggedSleepSeconds > govDisabled \/ Minute * 3 * govBefore > Hour
           THEN 0 ELSE govBefore + 1

(* a call at the boundary now + sleep == T, with a sleep that is not zero *)
C6_Witness ==
  /\ govDisabled > 1
  /\ govBefore > 0
  /\ govNow + LoggedSleepSeconds = govDisabled

(* C7: after a call with disabled == 0 the result is true, nothing was     *)
(* slept and the count is 0, whatever the count before.                    *)
C7_EnabledResets ==
  govDisabled = 0 => (govRun /\ govSleep = 0 /\ disabledLoopCount = 0)

(* a call with disabled == 0 was made at a count that was not 0 *)
C7_Witness == govDisabled = 0 /\ govBefore > 0

(* -------------------- site discovery on its own ----------------------- *)
(* The loop of retrieveSitesPeriodically with any answer of get-info and   *)
(* of site list in every cycle, and the sites taken off the channel as     *)
(* they are sent.  A cycle is logged: whether get-info failed, the count   *)
(* before it and the time slept.                                           *)
SitesCycle ==
  /\ srpc = "wait"
  /\ \E info \in InstanceInfos, listErr \in BOOLEAN, upstream \in SiteLists,
        js \in RandChoices(MaxSites) :
       LET res == getSites(info, listErr, upstream, js, disabledLoopCount, GovNow0)
       IN /\ infoErr' = info.err
          /\ govBefore' = disabledLoopCount
          /\ govSleep' = res.sleep
          /\ disabledLoopCount' = res.count
          /\ siteList' = res.sites
          /\ srpc' = IF res.sites = <<>> THEN "wait" ELSE "send"
  /\ UNCHANGED <<govDisabled, govNow, govRun, streak>>
  /\ UNCHANGED <<cfgVars, gRestart, exitBy, retVars, coVars, wkVars, cntVars, hbVars,
                 waitVars, shufVars, regVars>>

(* sites <- site, taken by some retriever *)
SitesSend ==
  /\ srpc = "send"
  /\ siteList' = Tail(siteList)
  /\ srpc' = IF Tail(siteList) = <<>> THEN "wait" ELSE "send"
  /\ UNCHANGED <<disabledLoopCount, cfgVars, gRestart, exitBy, retVars, coVars, wkVars,
                 cntVars, hbVars, compVars>>

SitesInit ==
  /\ numGetWorkers = 1
  /\ numRunWorkers = 1
  /\ heartbeatInt = 1
  /\ PipelineInit
  /\ GovIdle
  /\ WaitIdle
  /\ ShufIdle
  /\ RegIdle

SitesNext ==
  \/ SitesCycle
  \/ SitesSend

SitesSpec == SitesInit /\ [][SitesNext]_vars

(* C18: after a cycle in which get-info or its decoding failed there is no *)
(* site to send and the loop is back at its wait; the time slept is        *)
(* 3 minutes x the count before, and the count is 0 when that is more than *)
(* an hour and the count before + 1 otherwise, as for disabled == 1.       *)
C18_InfoErrorIsDisabledOne ==
  infoErr =>
    /\ siteList = <<>>
    /\ srpc = "wait"
    /\ govSleep = Minute * 3 * govBefore
    /\ disabledLoopCount = IF Minute * 3 * govBefore > Hour THEN 0 ELSE govBefore + 1

(* get-info failed in a cycle that found the count above 0 and slept *)
C18_Witness ==
  /\ infoErr
  /\ govBefore > 0
  /\ govSleep > 0

(* ----------------------- the waiter on its own ------------------------- *)
(* One goroutine calls waitForEpoch again and again on a clock of ticks.   *)
(* The clock moves only while the goroutine sleeps or is between calls,    *)
(* and time.Sleep takes exactly the time asked for.                        *)
MaxHeartbeat == 2
MaxCallTime == runEventsBreakSec * Second

WaitCalls ==
  { <<"heartbeat", heartbeatInt>>, <<"runEvents", runEventsBreakSec>> }

(* the first lines of waitForEpoch: the time to the next epoch boundary *)
EpochDelta(epochSec, now) ==
  LET tEpochNano == epochSec * Second
      d == tEpochNano - (now % tEpochNano)
  IN IF d < 1 * Second THEN d + epochSec * Second ELSE d

(* waitForEpoch(whom, epoch_sec) up to the loop: the delta, the random     *)
(* offset of the label, drawn when the label is new, and the target        *)
WaitCall ==
  /\ wtpc = "idle"
  /\ nowNano <= MaxCallTime
  /\ \E call \in WaitCalls :
       LET tEpochNano == call[2] * Second
       IN /\ whom' = call[1]
          /\ epoch_sec' = call[2]
          /\ tEpochDelta' = EpochDelta(call[2], nowNano)
          /\ IF gRandomDeltaMap[call[1]] = -1
               THEN \E off \in 0..(tEpochNano - 1) :
                      gRandomDeltaMap' = [gRandomDeltaMap EXCEPT ![call[1]] = off]
               ELSE UNCHANGED gRandomDeltaMap
          /\ tNextEpoch' = nowNano + tEpochDelta' + gRandomDeltaMap'[call[1]]
  /\ tCall' = nowNano
  /\ iLoop' = 3 * Second
  /\ wtpc' = "loop"
  /\ wtCause' = "none"
  /\ UNCHANGED <<nowNano, tReturn>>
  /\ UNCHANGED <<cfgVars, gRestart, exitBy, srVars, retVars, coVars, wkVars, cntVars, hbVars, govVars, shufVars, regVars>>

(* one turn of the loop: the loop condition, the watchdog, the test of     *)
(* gRestart, then the sleep of at most 3 s and i += tDelta                 *)
WaitLoop ==
  /\ wtpc = "loop"
  /\ IF nowNano >= tNextEpoch \/ iLoop > epoch_sec * Second * 2 \/ gRestart
       THEN /\ wtpc' = "idle"
            /\ tReturn' = nowNano
            /\ wtCause' = IF nowNano >= tNextEpoch THEN "epoch"
                          ELSE IF iLoop > epoch_sec * Second * 2 THEN "watchdog"
                          ELSE "restart"
            /\ tEpochDelta' = 0
            /\ tNextEpoch' = 0
            /\ iLoop' = 0
            /\ UNCHANGED nowNano
       ELSE LET tDelta == Min(tNextEpoch - nowNano, 3 * Second)
            IN /\ nowNano' = nowNano + tDelta
               /\ iLoop' = iLoop + tDelta
               /\ UNCHANGED <<wtpc, tReturn, wtCause, tEpochDelta, tNextEpoch>>
  /\ UNCHANGED <<whom, epoch_sec, tCall, gRandomDeltaMap>>
  /\ UNCHANGED <<cfgVars, gRestart, exitBy, srVars, retVars, coVars, wkVars, cntVars, hbVars, govVars, shufVars, regVars>>

(* time passes between two calls *)
WaitBetween ==
  /\ wtpc = "idle"
  /\ nowNano < MaxCallTime
  /\ nowNano' = nowNano + 1
  /\ UNCHANGED <<wtpc, whom, epoch_sec, tCall, tEpochDelta, tNextEpoch, iLoop,
                 gRandomDeltaMap, tReturn, wtCause>>
  /\ UNCHANGED <<cfgVars, gRestart, exitBy, srVars, retVars, coVars, wkVars, cntVars, hbVars, govVars, shufVars, regVars>>

WaitInit ==
  /\ numGetWorkers = 1
  /\ numRunWorkers = 1
  /\ heartbeatInt \in 1..MaxHeartbeat
  /\ PipelineInit
  /\ GovIdle
  /\ WaitIdle
  /\ ShufIdle
  /\ RegIdle

WaitNext ==
  \/ Signal
  \/ WaitCall
  \/ WaitLoop
  \/ WaitBetween

WaitSpec == WaitInit /\ [][WaitNext]_vars

(* C3: a call wait(label, period) during which the shutdown flag stays     *)
(* unset returns at a time T >= time of the call + 1 s with                *)
(* T mod period == offset(label).                                          *)
C3_ReturnsOnEpoch ==
  (wtpc = "idle" /\ wtCause # "none" /\ ~gRestart) =>
    /\ tReturn >= tCall + Second
    /\ tReturn % (epoch_sec * Second) = gRandomDeltaMap[whom]

(* ----------------------- the shuffle on its own ------------------------ *)
(* getMultisiteSites is called again and again with any decoded list of at *)
(* most MaxShuffle sites, a site possibly listed more than once, and any   *)
(* results of rand.Intn.                                                   *)
MaxShuffle == 3
ShufURLs == {"a", "b", "c"}
ShufLists == SeqsUpTo({ [URL |-> u] : u \in ShufURLs }, MaxShuffle)

ShufCall ==
  /\ \E upstream \in ShufLists, js \in RandChoices(MaxShuffle) :
       /\ shufIn' = upstream
       /\ shufOut' = getMultisiteSites(upstream, js)
  /\ UNCHANGED <<cfgVars, gRestart, exitBy, srVars, retVars, coVars, wkVars,
                 cntVars, hbVars, govVars, waitVars, regVars>>

ShufInit ==
  /\ numGetWorkers = 1
  /\ numRunWorkers = 1
  /\ heartbeatInt = 1
  /\ PipelineInit
  /\ GovIdle
  /\ WaitIdle
  /\ ShufIdle
  /\ RegIdle

ShufNext == ShufCall

ShufSpec == ShufInit /\ [][ShufNext]_vars

(* C11: the list getMultisiteSites returns is a permutation of the list it *)
(* decoded: the same length, and every site as many times in the one as in *)
(* the other.                                                              *)
C11_ShuffleIsPermutation ==
  LET Count(l, x) == Cardinality({ i \in 1..Len(l) : l[i] = x })
  IN /\ Len(shufOut) = Len(shufIn)
     /\ \A u \in ShufURLs : Count(shufOut, [URL |-> u]) = Count(shufIn, [URL |-> u])

(* a list of MaxShuffle sites, one of them listed twice, came back in      *)
(* another order                                                           *)
C11_Witness ==
  /\ Len(shufIn) = MaxShuffle
  /\ shufOut # shufIn
  /\ \E i, j \in 1..Len(shufIn) : i # j /\ shufIn[i] = shufIn[j]

(* ------------------- the offset map under its callers ------------------ *)
(* The goroutines that call waitForEpoch: 0 is heartbeat(), 1..MaxWorkers  *)
(* are the runEvents workers, which share one label.  A call looks the     *)
(* label up, stores an offset when the lookup found none, and reads the    *)
(* entry; the three map accesses are separate steps with no lock around    *)
(* them.                                                                   *)
RegCallers == 0..numRunWorkers
RegLabel(c) == IF c = 0 THEN "heartbeat" ELSE "runEvents"
RegPeriod(c) == IF c = 0 THEN heartbeatInt ELSE runEventsBreakSec

RegOthers ==
  <<cfgVars, gRestart, srVars, retVars, coVars, wkVars, cntVars, hbVars, govVars,
    shufVars, nowNano, wtpc, whom, epoch_sec, tCall, tEpochDelta, tNextEpoch,
    iLoop, tReturn, wtCause>>

(* waitForEpoch is entered *)
RegCall(c) ==
  /\ Running
  /\ regpc[c] = "idle"
  /\ regpc' = [regpc EXCEPT ![c] = "lookup"]
  /\ UNCHANGED <<gRandomDeltaMap, regWrites, exitBy, RegOthers>>

(* _, found := gRandomDeltaMap[whom] *)
RegLookup(c) ==
  /\ Running
  /\ regpc[c] = "lookup"
  /\ regpc' = [regpc EXCEPT ![c] =
                 IF gRandomDeltaMap[RegLabel(c)] # -1 THEN "read" ELSE "store"]
  /\ UNCHANGED <<gRandomDeltaMap, regWrites, exitBy, RegOthers>>

(* gRandomDeltaMap[whom] = rand.Int63n(tEpochNano).  While another         *)
(* goroutine is at an access of the map the runtime may instead stop the   *)
(* process with "concurrent map writes".                                   *)
RegStore(c) ==
  /\ Running
  /\ regpc[c] = "store"
  /\ \/ /\ \E off \in 0..(RegPeriod(c) * Second - 1) :
             gRandomDeltaMap' = [gRandomDeltaMap EXCEPT ![RegLabel(c)] = off]
        /\ regWrites' = [regWrites EXCEPT ![RegLabel(c)] = @ + 1]
        /\ regpc' = [regpc EXCEPT ![c] = "read"]
        /\ UNCHANGED exitBy
     \/ /\ \E d \in RegCallers \ {c} : regpc[d] \in {"lookup", "store", "read"}
        /\ exitBy' = "fatal"
        /\ UNCHANGED <<gRandomDeltaMap, regWrites, regpc>>
  /\ UNCHANGED RegOthers

(* tNextEpoch := ... + gRandomDeltaMap[whom]; the wait follows and the     *)
(* call returns                                                            *)
RegRead(c) ==
  /\ Running
  /\ regpc[c] = "read"
  /\ regpc' = [regpc EXCEPT ![c] = "idle"]
  /\ UNCHANGED <<gRandomDeltaMap, regWrites, exitBy, RegOthers>>

RegInit ==
  /\ numGetWorkers = 1
  /\ numRunWorkers = MaxWorkers
  /\ heartbeatInt = 1
  /\ PipelineInit
  /\ GovIdle
  /\ WaitIdle
  /\ ShufIdle
  /\ RegIdle

RegNext ==
  \/ \E c \in RegCallers : RegCall(c)
  \/ \E c \in RegCallers : RegLookup(c)
  \/ \E c \in RegCallers : RegStore(c)
  \/ \E c \in RegCallers : RegRead(c)

RegSpec == RegInit /\ [][RegNext]_vars

(* C15: the entry of a label is stored at most once, whoever calls. *)
C15_OffsetWrittenOnce == \A l \in Labels : regWrites[l] <= 1

====
